---- MODULE Spec2Model ----
(***************************************************************************)
(* Connect Four: the board (connect_four/board.py), the Score type and the *)
(* depth-limited look-ahead of the automated player                        *)
(* (connect_four/player_auto.py).                                          *)
(*                                                                         *)
(* Rows and columns are 0-based as in the source: row 0 is the top row,    *)
(* row height-1 the bottom row.                                            *)
(***************************************************************************)
EXTENDS Integers, Sequences, FiniteSets, TLC

VARIABLES
    board,      \* the Board object: width, height, _config, _available_rows,
                \* _available_min, _filled_max
    last,       \* the call made last: its name, arguments and outcome
    player,     \* the AutoPlayer object of the last search call
    scores,     \* the list returned by the last _get_scores_for call
    hist,       \* history: what the sequence of calls so far has done
    game        \* the game _connect_four hosts: its two players, whose turn it
                \* is and how it ended

vars == <<board, last, player, scores, hist, game>>

----------------------------------------------------------------------------
(* Bounds of the exploration *)

\* the most tokens a board explored by Spec holds
MaxTokens == 8

\* the most tokens of a board that SpecSearch builds call by call
MaxSearchTokens == 4

\* the deepest search SpecSearch starts on such a board
MaxDepth == 2

\* the deepest search SpecSearch starts on a board set up by _add_tokens
MaxScenarioDepth == 4

\* SpecBoard adds tokens to boards holding fewer tokens than this, and to
\* boards with at most MaxFreeCells empty cells
MaxBoardTokens == 3
MaxFreeCells == 1

\* the largest number of moves a Score of SpecScore carries
MaxScoreVal == 2

\* the most 'X' tokens a column of a board of SpecConnects holds
MaxColumnX == 1

\* the deepest AutoPlayer that plays in SpecGame, and the number of tokens on
\* the board from which on SpecGame follows a game with an AutoPlayer no further
MaxGameDepth == 2
MaxAutoTokens == 7

\* the most tokens on a board built by add_token calls that SpecDepths searches
MaxDepthsTokens == 3

----------------------------------------------------------------------------
(* validate.py *)

Tokens == {"O", "X"}

\* a token that is neither 'O' nor 'X'
BadToken == "Z"

validate_token(token) == token \in Tokens

MinDimension == 4

validate_dimension(value) == value >= MinDimension

----------------------------------------------------------------------------
(* board.py *)

Empty == " "

Rows(b) == 0 .. (b.height - 1)
Cols(b) == 0 .. (b.width - 1)

\* range(start, stop)
Range(start, stop) == start .. (stop - 1)

Min2(x, y) == IF x < y THEN x ELSE y
Max2(x, y) == IF x > y THEN x ELSE y

\* min(list) and max(list) over a list of integers indexed by column
MinOf(f) == CHOOSE x \in {f[c] : c \in DOMAIN f} : \A c \in DOMAIN f : x <= f[c]
MaxOf(f) == CHOOSE x \in {f[c] : c \in DOMAIN f} : \A c \in DOMAIN f : x >= f[c]

\* Board(width, height): __init__ and _reset_private_attr
NewBoard(width, height) ==
    [ width          |-> width,
      height         |-> height,
      config         |-> [row \in 0 .. (height - 1) |-> [col \in 0 .. (width - 1) |-> Empty]],
      available_rows |-> [col \in 0 .. (width - 1) |-> height - 1],
      available_min  |-> height - 1,
      filled_max     |-> height ]

\* Board.__eq__
BoardEq(a, b) ==
    /\ a.width = b.width
    /\ a.height = b.height
    /\ \A i \in Rows(a) : \A j \in Cols(a) : a.config[i][j] = b.config[i][j]

\* can_add_to accepting a full column
can_add_to_FullColumn(b, col) ==
    /\ 0 <= col
    /\ col < b.width
    /\ b.available_rows[col] >= -1

can_add_to(b, col) ==
    /\ 0 <= col
    /\ col < b.width
    /\ b.available_rows[col] >= 0

\* add_token without validate_token
add_token_error_NoTokenCheck(b, token, col) ==
    IF ~can_add_to(b, col) THEN "ValueError: col"
    ELSE ""

\* the two checks of add_token, in order: "" when the call goes through
add_token_error(b, token, col) ==
    IF ~validate_token(token) THEN "ValueError: token"
    ELSE IF ~can_add_to(b, col) THEN "ValueError: col"
    ELSE ""

\* add_token writing the token one cell above the lowest empty cell
add_token_Floating(b, token, col) ==
    LET row  == b.available_rows[col]
        rows == [b.available_rows EXCEPT ![col] = row - 1]
    IN  [ b EXCEPT
            !.config         = [b.config EXCEPT ![IF row > 0 THEN row - 1 ELSE row][col] = token],
            !.available_rows = rows,
            !.available_min  = IF rows[col] < b.available_min
                               THEN rows[col] ELSE b.available_min,
            !.filled_max     = MaxOf(rows) + 1 ]

\* add_token leaving _available_min as it is
add_token_KeepsMin(b, token, col) ==
    LET row  == b.available_rows[col]
        rows == [b.available_rows EXCEPT ![col] = row - 1]
    IN  [ b EXCEPT
            !.config         = [b.config EXCEPT ![row][col] = token],
            !.available_rows = rows,
            !.filled_max     = MaxOf(rows) + 1 ]

\* the body of add_token after its two checks have passed
add_token(b, token, col) ==
    LET row  == b.available_rows[col]
        rows == [b.available_rows EXCEPT ![col] = row - 1]
    IN  [ b EXCEPT
            !.config         = [b.config EXCEPT ![row][col] = token],
            !.available_rows = rows,
            !.available_min  = IF rows[col] < b.available_min
                               THEN rows[col] ELSE b.available_min,
            !.filled_max     = MaxOf(rows) + 1 ]

\* is_full answering for one full column
is_full_AnyColumn(b) == \E col \in Cols(b) : b.available_rows[col] = -1

is_full(b) == \A col \in Cols(b) : b.available_rows[col] = -1

\* remove_token without the check for an empty column
remove_token_error_NoEmptyCheck(b, col) ==
    IF col < 0 \/ col >= b.width THEN "ValueError: not a valid index"
    ELSE ""

\* the two checks of remove_token, in order: "" when the call goes through
remove_token_error(b, col) ==
    IF col < 0 \/ col >= b.width THEN "ValueError: not a valid index"
    ELSE IF b.available_rows[col] = b.height - 1 THEN "ValueError: empty"
    ELSE ""

\* remove_token clearing the cell above the column's top token
remove_token_ClearsAbove(b, col) ==
    LET row  == b.available_rows[col] + 1
        rows == [b.available_rows EXCEPT ![col] = row]
    IN  [ b EXCEPT
            !.config         = [b.config EXCEPT ![row - 1][col] = Empty],
            !.available_rows = rows,
            !.available_min  = MinOf(rows),
            !.filled_max     = IF rows[col] + 1 > b.filled_max
                               THEN rows[col] + 1 ELSE b.filled_max ]

\* remove_token leaving _available_min as add_token set it
remove_token_KeepsMin(b, col) ==
    LET row  == b.available_rows[col] + 1
        rows == [b.available_rows EXCEPT ![col] = row]
    IN  [ b EXCEPT
            !.config         = [b.config EXCEPT ![row][col] = Empty],
            !.available_rows = rows,
            !.filled_max     = IF rows[col] + 1 > b.filled_max
                               THEN rows[col] + 1 ELSE b.filled_max ]

\* remove_token clearing the bottom cell of the column
remove_token_ClearsBottom(b, col) ==
    LET row  == b.available_rows[col] + 1
        rows == [b.available_rows EXCEPT ![col] = row]
    IN  [ b EXCEPT
            !.config         = [b.config EXCEPT ![b.height - 1][col] = Empty],
            !.available_rows = rows,
            !.available_min  = MinOf(rows),
            !.filled_max     = IF rows[col] + 1 > b.filled_max
                               THEN rows[col] + 1 ELSE b.filled_max ]

\* remove_token clearing the cell and leaving the column's pointer where it was
remove_token_StalePointer(b, col) ==
    LET row  == b.available_rows[col] + 1
        rows == b.available_rows
    IN  [ b EXCEPT
            !.config         = [b.config EXCEPT ![row][col] = Empty],
            !.available_rows = rows,
            !.available_min  = MinOf(rows),
            !.filled_max     = IF rows[col] + 1 > b.filled_max
                               THEN rows[col] + 1 ELSE b.filled_max ]

\* remove_token leaving _filled_max as it was
remove_token_KeepsMax(b, col) ==
    LET row  == b.available_rows[col] + 1
        rows == [b.available_rows EXCEPT ![col] = row]
    IN  [ b EXCEPT
            !.config         = [b.config EXCEPT ![row][col] = Empty],
            !.available_rows = rows,
            !.available_min  = MinOf(rows) ]

\* the body of remove_token after its two checks have passed
remove_token(b, col) ==
    LET row  == b.available_rows[col] + 1
        rows == [b.available_rows EXCEPT ![col] = row]
    IN  [ b EXCEPT
            !.config         = [b.config EXCEPT ![row][col] = Empty],
            !.available_rows = rows,
            !.available_min  = MinOf(rows),
            !.filled_max     = IF rows[col] + 1 > b.filled_max
                               THEN rows[col] + 1 ELSE b.filled_max ]

\* the windowed scan stopping one row early (at _filled_max, not _filled_max + 1)
ScanRows_StopEarly(b, lazy, last_stop) ==
    IF lazy
    THEN Range(b.available_min + 1, Min2(b.filled_max, last_stop))
    ELSE Range(0, last_stop)

\* the rows a scan starts from: range(start, stop) of the four _connects_*
\* methods, stop being height for the horizontal scan and height - 3 for the rest
ScanRows(b, lazy, last_stop) ==
    IF lazy
    THEN Range(b.available_min + 1, Min2(b.filled_max + 1, last_stop))
    ELSE Range(0, last_stop)

connects_horiz(b, token, lazy) ==
    \E row \in ScanRows(b, lazy, b.height) : \E col \in Range(0, b.width - 3) :
        /\ token = b.config[row][col]
        /\ token = b.config[row][col + 1]
        /\ token = b.config[row][col + 2]
        /\ token = b.config[row][col + 3]

connects_vert(b, token, lazy) ==
    \E row \in ScanRows(b, lazy, b.height - 3) : \E col \in Range(0, b.width) :
        /\ token = b.config[row][col]
        /\ token = b.config[row + 1][col]
        /\ token = b.config[row + 2][col]
        /\ token = b.config[row + 3][col]

\* the diagonal scan running on from the right edge to the left edge
connects_topleft_Wraps(b, token, lazy) ==
    \E row \in ScanRows(b, lazy, b.height - 3) : \E col \in Range(0, b.width) :
        /\ token = b.config[row][col]
        /\ token = b.config[row + 1][(col + 1) % b.width]
        /\ token = b.config[row + 2][(col + 2) % b.width]
        /\ token = b.config[row + 3][(col + 3) % b.width]

connects_topleft(b, token, lazy) ==
    \E row \in ScanRows(b, lazy, b.height - 3) : \E col \in Range(0, b.width - 3) :
        /\ token = b.config[row][col]
        /\ token = b.config[row + 1][col + 1]
        /\ token = b.config[row + 2][col + 2]
        /\ token = b.config[row + 3][col + 3]

connects_bottomleft(b, token, lazy) ==
    \E row \in ScanRows(b, lazy, b.height - 3) : \E col \in Range(0, b.width - 3) :
        /\ token = b.config[row][col + 3]
        /\ token = b.config[row + 1][col + 2]
        /\ token = b.config[row + 2][col + 1]
        /\ token = b.config[row + 3][col]

connects(b, token, lazy) ==
    \/ connects_horiz(b, token, lazy)
    \/ connects_vert(b, token, lazy)
    \/ connects_topleft(b, token, lazy)
    \/ connects_bottomleft(b, token, lazy)

----------------------------------------------------------------------------
(* player_auto.py: Score *)

\* score_val is None or an integer: <<>> stands for None, <<n>> for the integer n
None == <<>>
Some(n) == <<n>>

ScoreTypes == {"invalid", "losing", "neutral", "winning"}

\* Score.__init__ with the two setters' checks: "" when the object is built
score_error(score_type, score_val) ==
    IF score_type \notin ScoreTypes THEN "ValueError"
    ELSE IF score_type \in {"losing", "winning"} /\ score_val = None THEN "TypeError"
    ELSE ""

Score(score_type, score_val) == [score_type |-> score_type, score_val |-> score_val]

Val(x) == x.score_val[1]

\* __lt__ placing an invalid score below every score, itself included
ScoreLt_InvalidBelowAll(x, y) ==
    CASE x.score_type = "invalid" -> TRUE
      [] x.score_type = "losing"  ->
            \/ y.score_type \in {"neutral", "winning"}
            \/ (y.score_type = "losing" /\ Val(x) < Val(y))
      [] x.score_type = "neutral" -> y.score_type = "winning"
      [] x.score_type = "winning" -> y.score_type = "winning" /\ Val(x) > Val(y)

\* __lt__ ranking a win in more moves above a win in fewer
ScoreLt_SlowWinBest(x, y) ==
    CASE x.score_type = "invalid" -> y.score_type # "invalid"
      [] x.score_type = "losing"  ->
            \/ y.score_type \in {"neutral", "winning"}
            \/ (y.score_type = "losing" /\ Val(x) < Val(y))
      [] x.score_type = "neutral" -> y.score_type = "winning"
      [] x.score_type = "winning" -> y.score_type = "winning" /\ Val(x) < Val(y)

\* __lt__ ranking every win alike
ScoreLt_WinsAlike(x, y) ==
    CASE x.score_type = "invalid" -> y.score_type # "invalid"
      [] x.score_type = "losing"  ->
            \/ y.score_type \in {"neutral", "winning"}
            \/ (y.score_type = "losing" /\ Val(x) < Val(y))
      [] x.score_type = "neutral" -> y.score_type = "winning"
      [] x.score_type = "winning" -> FALSE

\* Score.__lt__
ScoreLt(x, y) ==
    CASE x.score_type = "invalid" -> y.score_type # "invalid"
      [] x.score_type = "losing"  ->
            \/ y.score_type \in {"neutral", "winning"}
            \/ (y.score_type = "losing" /\ Val(x) < Val(y))
      [] x.score_type = "neutral" -> y.score_type = "winning"
      [] x.score_type = "winning" -> y.score_type = "winning" /\ Val(x) > Val(y)

\* __eq__ comparing the attributes of the two objects
ScoreEq_SameAttributes(x, y) ==
    x.score_type = y.score_type /\ x.score_val = y.score_val

\* Score.__gt__, __ge__, __le__, __eq__, __ne__
ScoreGt(x, y) == ScoreLt(y, x)
ScoreGe(x, y) == ~ScoreLt(x, y)
ScoreLe(x, y) == ScoreGe(y, x)
ScoreEq(x, y) == ScoreLe(x, y) /\ ScoreGe(x, y)
ScoreNe(x, y) == ~ScoreEq(x, y)

\* _reverse without the extra move of a win that follows a loss
Reverse_NoIncrement(x) ==
    CASE x.score_type \in {"invalid", "neutral"} -> Score("neutral", Some(0))
      [] x.score_type = "losing"  -> Score("winning", Some(Val(x)))
      [] x.score_type = "winning" -> Score("losing", Some(Val(x)))

\* _reverse handing an invalid score on unchanged
Reverse_KeepsInvalid(x) ==
    CASE x.score_type = "invalid" -> Score("invalid", None)
      [] x.score_type = "neutral" -> Score("neutral", Some(0))
      [] x.score_type = "losing"  -> Score("winning", Some(Val(x) + 1))
      [] x.score_type = "winning" -> Score("losing", Some(Val(x)))

\* _reverse counting the extra move on the losing side
Reverse_IncrementsLoss(x) ==
    CASE x.score_type \in {"invalid", "neutral"} -> Score("neutral", Some(0))
      [] x.score_type = "losing"  -> Score("winning", Some(Val(x)))
      [] x.score_type = "winning" -> Score("losing", Some(Val(x) + 1))

\* _reverse counting two moves for a win that follows a loss
Reverse_CountsTwice(x) ==
    CASE x.score_type \in {"invalid", "neutral"} -> Score("neutral", Some(0))
      [] x.score_type = "losing"  -> Score("winning", Some(Val(x) + 2))
      [] x.score_type = "winning" -> Score("losing", Some(Val(x)))

\* _reverse forgetting the moves a loss takes
Reverse_ForgetsMoves(x) ==
    CASE x.score_type \in {"invalid", "neutral"} -> Score("neutral", Some(0))
      [] x.score_type = "losing"  -> Score("winning", Some(0))
      [] x.score_type = "winning" -> Score("losing", Some(Val(x)))

\* Score._reverse
Reverse(x) ==
    CASE x.score_type \in {"invalid", "neutral"} -> Score("neutral", Some(0))
      [] x.score_type = "losing"  -> Score("winning", Some(Val(x) + 1))
      [] x.score_type = "winning" -> Score("losing", Some(Val(x)))

\* min(list) in the place of max(list)
RECURSIVE MaxFrom_Least(_, _, _)
MaxFrom_Least(list, i, best) ==
    IF i \notin DOMAIN list THEN best
    ELSE MaxFrom_Least(list, i + 1, IF ScoreLt(list[i], best) THEN list[i] ELSE best)

\* max(list) of the built-in: the first item no later item is greater than
RECURSIVE MaxFrom(_, _, _)
MaxFrom(list, i, best) ==
    IF i \notin DOMAIN list THEN best
    ELSE MaxFrom(list, i + 1, IF ScoreGt(list[i], best) THEN list[i] ELSE best)

\* max(scores) that takes the first score of the list
MaxScore_FirstColumn(list) == list[0]

MaxScore(list) == MaxFrom(list, 1, list[0])

----------------------------------------------------------------------------
(* player_auto.py: AutoPlayer *)

OpponentOf(token) == IF token = "X" THEN "O" ELSE "X"

\* self._increment_num_moves(), counting two moves
increment_num_moves_Twice(self) == [self EXCEPT !.num_moves = @ + 2]

\* self._increment_num_moves() that counts nothing
increment_num_moves_Never(self) == self

\* self._increment_num_moves()
increment_num_moves(self) == [self EXCEPT !.num_moves = @ + 1]

\* AutoPlayer(token, depth): Player.__init__ and AutoPlayer.__init__
NewAutoPlayer(token, depth) ==
    [ token          |-> token,
      num_moves      |-> 0,
      depth          |-> depth,
      score          |-> Score("neutral", None),
      opponent_token |-> OpponentOf(token) ]

\* no AutoPlayer has been built
NoPlayer ==
    [ token |-> "", num_moves |-> 0, depth |-> 0,
      score |-> Score("neutral", None), opponent_token |-> "" ]

\* The look-ahead works on the one board object it was handed.  A search state is
\* the list of scores filled so far and that board; placed counts the add_token
\* calls made and restored records whether every place/recurse/remove step so far
\* left the board object as it found it; visited holds the board as it was
\* after each add_token and each remove_token call of the look-ahead.
RECURSIVE get_scores_for(_, _), ScoreColumns(_, _, _)

\* the loop body leaving a column unscored at the horizon
ScoreColumn_HorizonUnscored(self, st, col) ==
    LET b == st.board IN
    IF ~can_add_to(b, col) THEN st
    ELSE IF connects(b, self.opponent_token, TRUE)
    THEN [st EXCEPT !.scores[col] = Score("losing", Some(-1))]
    ELSE IF self.depth = 0
    THEN st
    ELSE LET opponent       == NewAutoPlayer(self.opponent_token, self.depth - 1)
             added          == add_token(b, self.token, col)
             sub            == get_scores_for(opponent, added)
             opponent_score == MaxScore(sub.scores)
             after          == remove_token(sub.board, col)
         IN  [ scores   |-> [st.scores EXCEPT ![col] = Reverse(opponent_score)],
               board    |-> after,
               placed   |-> st.placed + sub.placed + 1,
               restored |-> st.restored /\ sub.restored /\ after = b,
               visited  |-> st.visited \cup sub.visited \cup {added, after} ]

\* the loop body testing the horizon before the opponent's four-in-a-row
ScoreColumn_HorizonFirst(self, st, col) ==
    LET b == st.board IN
    IF ~can_add_to(b, col) THEN st
    ELSE IF self.depth = 0
    THEN [st EXCEPT !.scores[col] = Score("neutral", None)]
    ELSE IF connects(b, self.opponent_token, TRUE)
    THEN [st EXCEPT !.scores[col] = Score("losing", Some(-1))]
    ELSE LET opponent       == NewAutoPlayer(self.opponent_token, self.depth - 1)
             added          == add_token(b, self.token, col)
             sub            == get_scores_for(opponent, added)
             opponent_score == MaxScore(sub.scores)
             after          == remove_token(sub.board, col)
         IN  [ scores   |-> [st.scores EXCEPT ![col] = Reverse(opponent_score)],
               board    |-> after,
               placed   |-> st.placed + sub.placed + 1,
               restored |-> st.restored /\ sub.restored /\ after = b,
               visited  |-> st.visited \cup sub.visited \cup {added, after} ]

\* one pass of the loop body of _get_scores_for, for column col
ScoreColumn(self, st, col) ==
    LET b == st.board IN
    IF ~can_add_to(b, col) THEN st
    ELSE IF connects(b, self.opponent_token, TRUE)
    THEN [st EXCEPT !.scores[col] = Score("losing", Some(-1))]
    ELSE IF self.depth = 0
    THEN [st EXCEPT !.scores[col] = Score("neutral", None)]
    ELSE LET opponent       == NewAutoPlayer(self.opponent_token, self.depth - 1)
             added          == add_token(b, self.token, col)
             sub            == get_scores_for(opponent, added)
             opponent_score == MaxScore(sub.scores)
             after          == remove_token(sub.board, col)
         IN  [ scores   |-> [st.scores EXCEPT ![col] = Reverse(opponent_score)],
               board    |-> after,
               placed   |-> st.placed + sub.placed + 1,
               restored |-> st.restored /\ sub.restored /\ after = b,
               visited  |-> st.visited \cup sub.visited \cup {added, after} ]

\* the loop of _get_scores_for from column col on
ScoreColumns(self, st, col) ==
    IF col >= st.board.width THEN st
    ELSE ScoreColumns(self, ScoreColumn(self, st, col), col + 1)

\* AutoPlayer._get_scores_for
get_scores_for(self, b) ==
    ScoreColumns(self,
                 [ scores   |-> [col \in Cols(b) |-> Score("invalid", None)],
                   board    |-> b,
                   placed   |-> 0,
                   restored |-> TRUE,
                   visited  |-> {} ],
                 0)

\* candidate_cols holding the first best column only
CandidateCols_First(list, max_score) ==
    {i \in DOMAIN list : ScoreEq(list[i], max_score)
                         /\ \A j \in DOMAIN list : ScoreEq(list[j], max_score) => i <= j}

\* candidate_cols taking every column that is not worse than the first
CandidateCols_NotWorse(list, max_score) ==
    {i \in DOMAIN list : ~ScoreLt(list[i], list[0])}

\* candidate_cols of get_next_move
CandidateCols(list, max_score) ==
    {i \in DOMAIN list : ScoreEq(list[i], max_score)}

----------------------------------------------------------------------------
(* The calls: each action is one call on the board or on a freshly built player *)

TokenCount(b) ==
    LET RECURSIVE Sum(_)
        Sum(col) == IF col >= b.width THEN 0
                    ELSE (b.height - 1 - b.available_rows[col]) + Sum(col + 1)
    IN  Sum(0)

\* a four-in-a-row of either token anywhere on the board
Decided(b) == connects(b, "O", FALSE) \/ connects(b, "X", FALSE)

\* last: the name of the call made last; for add_token and for the search calls
\* also the arguments (remove_token's column is not kept); for a search call
\* the column returned and the columns it was drawn from (get_next_move), the
\* number of add_token calls it made and
\* whether each of its place/recurse/remove steps left the board as it found it;
\* error is the exception raised ("" for none), answer what can_add_to,
\* is_full or connects returned;
\* name is the scenario a board set up by _add_tokens comes from.
NoCall ==
    [ op |-> "none", name |-> "", token |-> "", col |-> -1, depth |-> -1,
      ret |-> -1, answer |-> FALSE, candidates |-> {}, error |-> "", placed |-> 0,
      restored |-> TRUE ]

BoardOps == {"none", "add_token", "remove_token"}

\* the calls after which a call that reads or changes the board is made
SetUpOps == BoardOps \cup {"_add_tokens"}

\* the board sizes explored
Dimensions == {<<MinDimension, MinDimension>>}

\* hist.before: the board as it was before the last call, kept after add_token
\*              (for the remove_token that may undo it), after that remove_token,
\*              after a search call, a failed call, can_add_to and is_full
\* hist.undone: the last call was remove_token(c) and the call before it
\*              add_token(t, c)
\* hist.clean:  no add_token so far was made on a board holding a four-in-a-row
\* hist.shallow: the depth and the list of the search call before the last, when
\*              the last one was a deeper search on the same board
NoShallow == [depth |-> -1, scores |-> <<>>]

NoHist == [before |-> <<>>, undone |-> FALSE, clean |-> TRUE, shallow |-> NoShallow]

\* no game is being hosted.  game.state is "none", "running", "won" (the last
\* mover has won), "tie" (the board is full) or "error" (an exception left
\* _connect_four); game.turn is the token of the player to move next;
\* game.players[token] is that player's kind and object; game.agreed records
\* whether the windowed and the full scan agreed on every board the players'
\* look-aheads have visited; game.won_in is the number of moves _process_move
\* has printed for the winner, -1 while it has printed none.
NoGame ==
    [state |-> "none", turn |-> "", players |-> <<>>, agreed |-> TRUE, won_in |-> -1]

InitWith(dims) ==
    /\ \E d \in dims : board = NewBoard(d[1], d[2])
    /\ last = NoCall
    /\ player = NoPlayer
    /\ scores = <<>>
    /\ hist = NoHist
    /\ game = NoGame

Init == InitWith(Dimensions)

\* board.add_token(token, col), the call going through
AddToken(token, col) ==
    /\ last.op \in SetUpOps
    /\ add_token_error(board, token, col) = ""
    /\ board' = add_token(board, token, col)
    /\ last' = [NoCall EXCEPT !.op = "add_token", !.token = token, !.col = col]
    /\ hist' = [hist EXCEPT !.before = board, !.undone = FALSE,
                            !.clean = @ /\ ~Decided(board)]
    /\ UNCHANGED <<player, scores, game>>

\* board.remove_token(col), the call going through
RemoveToken(col) ==
    /\ last.op \in SetUpOps
    /\ remove_token_error(board, col) = ""
    /\ board' = remove_token(board, col)
    /\ last' = [NoCall EXCEPT !.op = "remove_token"]
    /\ LET undo == last.op = "add_token" /\ last.error = "" /\ last.col = col
       IN  hist' = [hist EXCEPT !.before = IF undo THEN @ ELSE <<>>,
                                !.undone = undo]
    /\ UNCHANGED <<player, scores, game>>

\* Board._add_tokens(indices): tokens 'O', 'X', 'O', ... are added to the columns
\* listed, whatever the board holds by then
RECURSIVE add_tokens(_, _, _)
add_tokens(b, indices, token) ==
    IF indices = <<>> THEN b
    ELSE add_tokens(add_token(b, token, Head(indices)), Tail(indices),
                    IF token = "X" THEN "O" ELSE "X")

\* _add_tokens goes through: every column listed can take its token
RECURSIVE can_add_tokens(_, _)
can_add_tokens(b, indices) ==
    IF indices = <<>> THEN TRUE
    ELSE /\ can_add_to(b, Head(indices))
         /\ can_add_tokens(add_token(b, "O", Head(indices)), Tail(indices))

\* no token of _add_tokens(indices) is added to a board holding a four-in-a-row
RECURSIVE CleanTokens(_, _, _)
CleanTokens(b, indices, token) ==
    IF indices = <<>> THEN TRUE
    ELSE /\ ~Decided(b)
         /\ CleanTokens(add_token(b, token, Head(indices)), Tail(indices),
                        IF token = "X" THEN "O" ELSE "X")

\* The boards the tests and the scenarios of the specification set up:
\*   reference   test_auto_player_get_scores_for: Board(7, 6), "04122544114"
\*   repr        test_auto_player_repr: Board(4, 4), "012301230011"
\*   full        a full 4x4 board without a four-in-a-row
\*   last_cell   the same board before its last token
\*   after_win   play went on after 'O' completed the bottom row
\*   last_win    a 4x4 board without a four-in-a-row whose last empty cell
\*               completes a diagonal of 'X'
\*   threat      'X' to move on a 4x4 board: one of its columns loses at once,
\*               another in two moves of 'O', a third does not lose
Scenarios ==
    { [name |-> "reference", width |-> 7, height |-> 6,
       indices |-> <<0, 4, 1, 2, 2, 5, 4, 4, 1, 1, 4>>],
      [name |-> "repr", width |-> 4, height |-> 4,
       indices |-> <<0, 1, 2, 3, 0, 1, 2, 3, 0, 0, 1, 1>>],
      [name |-> "full", width |-> 4, height |-> 4,
       indices |-> <<0, 2, 0, 3, 1, 1, 0, 2, 1, 2, 3, 0, 3, 3, 2, 1>>],
      [name |-> "last_cell", width |-> 4, height |-> 4,
       indices |-> <<0, 2, 0, 3, 1, 1, 0, 2, 1, 2, 3, 0, 3, 3, 2>>],
      [name |-> "after_win", width |-> 4, height |-> 4,
       indices |-> <<0, 0, 1, 1, 2, 0, 3, 3, 2>>],
      [name |-> "last_win", width |-> 4, height |-> 4,
       indices |-> <<1, 0, 0, 0, 0, 1, 1, 1, 2, 3, 2, 2, 2, 3, 3>>],
      [name |-> "threat", width |-> 4, height |-> 4,
       indices |-> <<0, 1, 1, 2, 1, 1, 2, 2, 0>>] }

\* board = Board(width, height); board._add_tokens(indices)
SetUp(sc) ==
    /\ last.op = "none"
    /\ validate_dimension(sc.width)
    /\ validate_dimension(sc.height)
    /\ can_add_tokens(NewBoard(sc.width, sc.height), sc.indices)
    /\ board' = add_tokens(NewBoard(sc.width, sc.height), sc.indices, "O")
    /\ last' = [NoCall EXCEPT !.op = "_add_tokens", !.name = sc.name]
    /\ hist' = [NoHist EXCEPT
                  !.clean = CleanTokens(NewBoard(sc.width, sc.height), sc.indices, "O")]
    /\ UNCHANGED <<player, scores, game>>

SearchOps == {"_get_scores_for", "get_next_move"}

\* AutoPlayer(token, depth)._get_scores_for(board)
GetScoresFor(token, depth) ==
    /\ last.op \in SetUpOps
    /\ \E self \in {NewAutoPlayer(token, depth)} :
       \E res \in {get_scores_for(self, board)} :
          /\ board' = res.board
          /\ scores' = res.scores
          /\ player' = self
          /\ last' = [last EXCEPT !.op = "_get_scores_for", !.token = token,
                                  !.col = -1, !.depth = depth, !.placed = res.placed,
                                  !.restored = res.restored]
    /\ hist' = [hist EXCEPT !.before = board, !.undone = FALSE]
    /\ UNCHANGED game

\* AutoPlayer(token, depth).get_next_move(board); random.choice may return any
\* of the candidate columns, and raises IndexError when there is none
GetNextMove(token, depth) ==
    /\ last.op \in SetUpOps
    /\ \E self \in {increment_num_moves(NewAutoPlayer(token, depth))} :
       \E res \in {get_scores_for(self, board)} :
       \E max_score \in {MaxScore(res.scores)} :
       \E candidate_cols \in {CandidateCols(res.scores, max_score)} :
       \E col \in (IF candidate_cols = {} THEN {-1} ELSE candidate_cols) :
          /\ board' = res.board
          /\ scores' = res.scores
          /\ player' = [self EXCEPT !.score = max_score]
          /\ last' = [last EXCEPT !.op = "get_next_move", !.token = token,
                                  !.col = -1, !.depth = depth, !.placed = res.placed,
                                  !.restored = res.restored, !.ret = col,
                                  !.candidates = candidate_cols,
                                  !.error = IF candidate_cols = {} THEN "IndexError"
                                            ELSE ""]
    /\ hist' = [hist EXCEPT !.before = board, !.undone = FALSE]
    /\ UNCHANGED game

Next ==
    \/ \E token \in Tokens : \E col \in Cols(board) :
          TokenCount(board) < MaxTokens /\ AddToken(token, col)
    \/ \E col \in Cols(board) : RemoveToken(col)

Spec == Init /\ [][Next]_vars

\* SpecSearch: a board is built by add_token calls, or set up by _add_tokens as
\* the tests do, and then one search call is made on it
Depths == IF last.op = "_add_tokens" THEN 0 .. MaxScenarioDepth ELSE 0 .. MaxDepth

NextSearch ==
    \/ \E token \in Tokens : \E col \in Cols(board) :
          TokenCount(board) < MaxSearchTokens /\ AddToken(token, col)
    \/ \E sc \in Scenarios : SetUp(sc)
    \/ \E token \in Tokens : \E depth \in Depths :
          last.op = "_add_tokens" /\ GetScoresFor(token, depth)
    \/ \E token \in Tokens : \E depth \in Depths : GetNextMove(token, depth)

SpecSearch == Init /\ [][NextSearch]_vars

\* AutoPlayer(last.token, depth)._get_scores_for(board), after a shallower
\* search of the same token on the same board has returned
GetScoresForAgain(depth) ==
    /\ last.op = "_get_scores_for"
    /\ depth > last.depth
    /\ \E self \in {NewAutoPlayer(last.token, depth)} :
       \E res \in {get_scores_for(self, board)} :
          /\ board' = res.board
          /\ scores' = res.scores
          /\ player' = self
          /\ last' = [last EXCEPT !.depth = depth, !.placed = res.placed,
                                  !.restored = res.restored]
    /\ hist' = [hist EXCEPT !.before = board, !.undone = FALSE,
                            !.shallow = [depth |-> last.depth, scores |-> scores]]
    /\ UNCHANGED game

\* SpecDepths: a board is built by add_token calls, or a scenario of the
\* smallest board size is set up, and the board is searched by
\* _get_scores_for calls of growing depth
DeeperDepths == IF last.name = "" THEN 0 .. MaxDepth ELSE 0 .. MaxScenarioDepth

NextDepths ==
    \/ \E token \in Tokens : \E col \in Cols(board) :
          TokenCount(board) < MaxDepthsTokens /\ AddToken(token, col)
    \/ \E sc \in Scenarios : sc.width = MinDimension /\ SetUp(sc)
    \/ \E token \in Tokens : \E depth \in Depths : GetScoresFor(token, depth)
    \/ \E depth \in DeeperDepths : GetScoresForAgain(depth)

SpecDepths == Init /\ [][NextDepths]_vars

\* board.add_token(token, col), the call raising ValueError
AddTokenFails(token, col) ==
    /\ last.op \in SetUpOps
    /\ add_token_error(board, token, col) # ""
    /\ last' = [NoCall EXCEPT !.op = "add_token", !.token = token, !.col = col,
                              !.error = add_token_error(board, token, col)]
    /\ hist' = [hist EXCEPT !.before = board, !.undone = FALSE]
    /\ UNCHANGED <<board, player, scores, game>>

\* board.remove_token(col), the call raising ValueError
RemoveTokenFails(col) ==
    /\ last.op \in SetUpOps
    /\ remove_token_error(board, col) # ""
    /\ last' = [NoCall EXCEPT !.op = "remove_token", !.col = col,
                              !.error = remove_token_error(board, col)]
    /\ hist' = [hist EXCEPT !.before = board, !.undone = FALSE]
    /\ UNCHANGED <<board, player, scores, game>>

\* board.can_add_to(col)
CanAddTo(col) ==
    /\ last.op \in SetUpOps
    /\ last' = [NoCall EXCEPT !.op = "can_add_to", !.col = col,
                              !.answer = can_add_to(board, col)]
    /\ hist' = [hist EXCEPT !.before = board, !.undone = FALSE]
    /\ UNCHANGED <<board, player, scores, game>>

\* board.is_full()
IsFull ==
    /\ last.op \in SetUpOps
    /\ last' = [NoCall EXCEPT !.op = "is_full", !.answer = is_full(board)]
    /\ hist' = [hist EXCEPT !.before = board, !.undone = FALSE]
    /\ UNCHANGED <<board, player, scores, game>>

\* SpecBoard: the calls of the board, failing calls included, on small boards,
\* on the boards set up by _add_tokens and on nearly full boards
FreeCells(b) == b.width * b.height - TokenCount(b)

\* the column arguments tried: every column, one below and one above the range
ColArgs(b) == -1 .. b.width

NextBoard ==
    \/ \E token \in Tokens \cup {BadToken} : \E col \in ColArgs(board) :
          /\ TokenCount(board) < MaxBoardTokens \/ FreeCells(board) <= MaxFreeCells
          /\ AddToken(token, col)
    \/ \E token \in Tokens \cup {BadToken} : \E col \in ColArgs(board) :
          AddTokenFails(token, col)
    \/ \E col \in ColArgs(board) :
          /\ TokenCount(board) <= MaxBoardTokens \/ FreeCells(board) < MaxFreeCells
          /\ RemoveToken(col)
    \/ \E col \in ColArgs(board) : RemoveTokenFails(col)
    \/ \E col \in ColArgs(board) : CanAddTo(col)
    \/ IsFull
    \/ \E sc \in Scenarios : SetUp(sc)

SpecBoard == Init /\ [][NextBoard]_vars

\* the --p1 and --p2 options of main: random, or the depth of an AutoPlayer
PlayerArgs ==
    {[kind |-> "random", depth |-> 0]} \cup
    {[kind |-> "auto", depth |-> d] : d \in 0 .. MaxGameDepth}

\* RandomPlayer(token): Player.__init__
NewRandomPlayer(token) == [token |-> token, num_moves |-> 0]

\* the player main builds for an option
NewPlayer(arg, token) ==
    [ kind |-> arg.kind,
      obj  |-> IF arg.kind = "auto" THEN NewAutoPlayer(token, arg.depth)
               ELSE NewRandomPlayer(token) ]

\* the outcomes of p.get_next_move(b): the player object and the board after
\* the call, the column returned or the exception raised, the list of scores
\* and the boards visited by an AutoPlayer
get_next_move(p, b) ==
    IF p.kind = "auto"
    THEN LET self           == increment_num_moves(p.obj)
             res            == get_scores_for(self, b)
             max_score      == MaxScore(res.scores)
             candidate_cols == CandidateCols(res.scores, max_score)
         IN  { [ player |-> [p EXCEPT !.obj = [self EXCEPT !.score = max_score]],
                 board |-> res.board, scores |-> res.scores, visited |-> res.visited,
                 col |-> col,
                 error |-> IF candidate_cols = {} THEN "IndexError" ELSE "" ] :
               col \in (IF candidate_cols = {} THEN {-1} ELSE candidate_cols) }
    ELSE LET self    == increment_num_moves(p.obj)
             choices == {i \in Cols(b) : can_add_to(b, i)}
         IN  { [ player |-> [p EXCEPT !.obj = self],
                 board |-> b, scores |-> <<>>, visited |-> {},
                 col |-> col,
                 error |-> IF choices = {} THEN "IndexError" ELSE "" ] :
               col \in (IF choices = {} THEN {-1} ELSE choices) }

\* the windowed and the full scan agree on the board, for both tokens
LazyAgrees(b) ==
    \A token \in Tokens : connects(b, token, TRUE) = connects(b, token, FALSE)

\* _connect_four(player_1, player_2, width, height) up to its loop
StartGame(p1, p2) ==
    /\ last.op = "none"
    /\ game.state = "none"
    /\ game' = [ state |-> "running", turn |-> "O",
                 players |-> [token \in Tokens |->
                                NewPlayer(IF token = "O" THEN p1 ELSE p2, token)],
                 agreed |-> TRUE, won_in |-> -1 ]
    /\ board' = NewBoard(board.width, board.height)
    /\ last' = [NoCall EXCEPT !.op = "_connect_four"]
    /\ UNCHANGED <<player, scores, hist>>

\* _process_move testing is_full before connects
GameState_FullFirst(b, token) ==
    IF is_full(b) THEN "tie"
    ELSE IF connects(b, token, TRUE) THEN "won"
    ELSE "running"

\* _process_move testing the four-in-a-row of the other token
GameState_OtherToken(b, token) ==
    IF connects(b, OpponentOf(token), TRUE) THEN "won"
    ELSE IF is_full(b) THEN "tie"
    ELSE "running"

\* how the game stands after token was placed and the board became b
GameState(b, token) ==
    IF connects(b, token, TRUE) THEN "won"
    ELSE IF is_full(b) THEN "tie"
    ELSE "running"

\* _process_move(player, board) for the player whose turn it is
ProcessMove ==
    /\ game.state = "running"
    /\ \E out \in get_next_move(game.players[game.turn], board) :
       \E error \in { IF out.error # "" THEN out.error
                      ELSE add_token_error(out.board, game.turn, out.col) } :
       \E b \in { IF error # "" THEN out.board
                  ELSE add_token(out.board, game.turn, out.col) } :
       \E state \in { IF error # "" THEN "error" ELSE GameState(b, game.turn) } :
          /\ board' = b
          /\ scores' = out.scores
          /\ last' = [NoCall EXCEPT !.op = "_process_move", !.token = game.turn,
                                    !.error = error]
          /\ game' = [game EXCEPT
                        !.players[game.turn] = out.player,
                        !.state  = state,
                        !.turn   = IF state = "running" THEN OpponentOf(game.turn) ELSE @,
                        !.agreed = @ /\ \A v \in out.visited : LazyAgrees(v),
                        !.won_in = IF state = "won" THEN out.player.obj.num_moves
                                   ELSE @]
          /\ hist' = [hist EXCEPT !.before = <<>>, !.undone = FALSE,
                                  !.clean = @ /\ (error # "" \/ ~Decided(board))]
    /\ UNCHANGED player

\* SpecGame: games between two players of the same kind and depth; a game with
\* an AutoPlayer is followed up to MaxAutoTokens tokens
RandomArg == [kind |-> "random", depth |-> 0]

RandomGame == \A token \in Tokens : game.players[token].kind = "random"

NextGame ==
    \/ \E p \in PlayerArgs : StartGame(p, p)
    \/ /\ game.state = "running"
       /\ RandomGame \/ TokenCount(board) < MaxAutoTokens
       /\ ProcessMove

SpecGame == Init /\ [][NextGame]_vars

\* SpecGameFair: games between two RandomPlayers, in which _connect_four keeps
\* running its loop
NextRandomGame ==
    \/ StartGame(RandomArg, RandomArg)
    \/ ProcessMove

SpecGameFair == Init /\ [][NextRandomGame]_vars /\ WF_vars(NextRandomGame)

\* SpecConnects: connects is called on the 4x4 boards whose columns hold any
\* tokens, at most MaxColumnX of them 'X' per column

\* the tokens of a column, bottom first
ColumnFills ==
    { fill \in UNION { [1 .. h -> Tokens] : h \in 0 .. MinDimension } :
        Cardinality({i \in DOMAIN fill : fill[i] = "X"}) <= MaxColumnX }

\* add_token(fill[i], col) for i = from, from + 1, ...
RECURSIVE FillColumn(_, _, _, _)
FillColumn(b, col, fill, from) ==
    IF from > Len(fill) THEN b
    ELSE FillColumn(add_token(b, fill[from], col), col, fill, from + 1)

\* the board after the columns col, col + 1, ... were filled as fills says
RECURSIVE FillBoard(_, _, _)
FillBoard(b, fills, col) ==
    IF col >= b.width THEN b
    ELSE FillBoard(FillColumn(b, col, fills[col], 1), fills, col + 1)

InitConnects ==
    /\ \E fills \in [0 .. (MinDimension - 1) -> ColumnFills] :
          board = FillBoard(NewBoard(MinDimension, MinDimension), fills, 0)
    /\ last = NoCall
    /\ player = NoPlayer
    /\ scores = <<>>
    /\ hist = NoHist
    /\ game = NoGame

\* board.connects(token), the scan of the whole board
Connects(token) ==
    /\ last.op = "none"
    /\ last' = [NoCall EXCEPT !.op = "connects", !.token = token,
                              !.error = IF validate_token(token) THEN ""
                                        ELSE "ValueError: token",
                              !.answer = IF validate_token(token)
                                         THEN connects(board, token, FALSE)
                                         ELSE FALSE]
    /\ hist' = [hist EXCEPT !.before = board]
    /\ UNCHANGED <<board, player, scores, game>>

NextConnects ==
    \E token \in Tokens \cup {BadToken} : Connects(token)

SpecConnects == InitConnects /\ [][NextConnects]_vars

\* SpecScore: Score objects are built, compared and reversed
ScoreVals == -1 .. MaxScoreVal

Payloads == {None} \cup {Some(n) : n \in ScoreVals}

\* a score_type that is none of the four
BadScoreType == "drawn"

\* the Score objects the constructor builds
ScoreValues ==
    { Score(t, v) : t \in ScoreTypes, v \in Payloads } \
    { Score(t, None) : t \in {"losing", "winning"} }

ScoreOps == {"Score", "compare", "_reverse", "max_reverse"}

\* Score(score_type, score_val): scores[0] is the object built, if one is
NewScore(score_type, score_val) ==
    /\ last.op = "none"
    /\ last' = [NoCall EXCEPT !.op = "Score",
                              !.error = score_error(score_type, score_val)]
    /\ scores' = IF score_error(score_type, score_val) = ""
                 THEN [i \in {0} |-> Score(score_type, score_val)]
                 ELSE scores
    /\ UNCHANGED <<board, player, hist, game>>

\* three Score objects x, y, z are at hand for comparison: scores = [x, y, z]
Compare(x, y, z) ==
    /\ last.op = "none"
    /\ last' = [NoCall EXCEPT !.op = "compare"]
    /\ scores' = [i \in 0 .. 2 |-> CASE i = 0 -> x [] i = 1 -> y [] i = 2 -> z]
    /\ UNCHANGED <<board, player, hist, game>>

\* scores[0]._reverse() on the object just built: scores = [the receiver, the
\* object returned]; hist.before is the receiver as it was before the call
ReverseScore ==
    /\ last.op = "Score"
    /\ last.error = ""
    /\ last' = [NoCall EXCEPT !.op = "_reverse"]
    /\ scores' = [i \in 0 .. 1 |-> IF i = 0 THEN scores[0] ELSE Reverse(scores[0])]
    /\ hist' = [hist EXCEPT !.before = scores[0]]
    /\ UNCHANGED <<board, player, game>>

\* x._reverse(), y._reverse() and max([x, y])._reverse(), the last as
\* _get_scores_for does with the list of the opponent:
\* scores = [x, y, x reversed, y reversed, the maximum reversed]
MaxReverse(x, y) ==
    /\ last.op = "none"
    /\ last' = [NoCall EXCEPT !.op = "max_reverse"]
    /\ scores' = [i \in 0 .. 4 |->
                    CASE i = 0 -> x
                      [] i = 1 -> y
                      [] i = 2 -> Reverse(x)
                      [] i = 3 -> Reverse(y)
                      [] i = 4 -> Reverse(MaxScore([j \in 0 .. 1 |-> IF j = 0 THEN x ELSE y]))]
    /\ UNCHANGED <<board, player, hist, game>>

NextScore ==
    \/ \E t \in ScoreTypes \cup {BadScoreType} : \E v \in Payloads : NewScore(t, v)
    \/ \E x, y, z \in ScoreValues : Compare(x, y, z)
    \/ ReverseScore
    \/ \E x, y \in ScoreValues : MaxReverse(x, y)

SpecScore == Init /\ [][NextScore]_vars

----------------------------------------------------------------------------
(* Claims *)

\* C1 (as stated): after every successful add_token or remove_token call, whatever
\* the calls before it were, connects(token, lazy=True) equals
\* connects(token, lazy=False) for 'O' and for 'X'.
C1_LazyEqualsFullAlways ==
    last.op \in {"add_token", "remove_token"} => LazyAgrees(board)

\* C1 (amended): after every successful add_token or remove_token call of a
\* sequence in which no token was added to a board that already held a
\* four-in-a-row, connects(token, lazy=True) equals connects(token, lazy=False)
\* for 'O' and for 'X'; and the windowed scan never reports a four-in-a-row the
\* full scan does not.
C1_LazyEqualsFull ==
    last.op \in {"add_token", "remove_token"} =>
        /\ hist.clean => LazyAgrees(board)
        /\ \A token \in Tokens : connects(board, token, TRUE) => connects(board, token, FALSE)

\* C1 witness: a token was just added to an undecided board, it completed a
\* four-in-a-row that both scans report, and the windowed scan skipped a row.
C1_Witness ==
    /\ last.op = "add_token"
    /\ hist.clean
    /\ connects(board, last.token, TRUE)
    /\ connects(board, last.token, FALSE)
    /\ ScanRows(board, TRUE, board.height) # Rows(board)

\* C2: add_token(t, c) on a playable column followed by remove_token(c) leaves a
\* board equal, cell for cell (Board.__eq__), to the board before the two calls.
C2_UndoExact ==
    hist.undone => BoardEq(board, hist.before)

\* C2 witness: a token was added on top of other tokens and removed again, on a
\* board that holds tokens in other columns too.
C2_Witness ==
    /\ hist.undone
    /\ \E c1, c2 \in Cols(board) :
          /\ c1 # c2
          /\ board.available_rows[c1] < board.height - 1
          /\ board.available_rows[c2] < board.height - 1
    /\ TokenCount(board) >= 3

----------------------------------------------------------------------------
(* Claims about the search *)

IsSearch == last.op \in SearchOps

Invalid == Score("invalid", None)
Neutral == Score("neutral", None)
Losing(n) == Score("losing", Some(n))
Winning(n) == Score("winning", Some(n))

\* x is the score y: the same kind, and for losing and winning the same number
Is(x, y) == x.score_type = y.score_type /\ ScoreEq(x, y)

\* the board the last search call received
Received == hist.before

\* the token whose turn it is when 'O' and 'X' alternate and 'O' starts
ToMove(b) == IF TokenCount(b) % 2 = 0 THEN "O" ELSE "X"

\* C3: when _get_scores_for (and hence get_next_move) returns, the cells, every
\* column's _available_rows entry, _available_min and _filled_max are what they
\* were before the call, and so they were after each place/recurse/remove step
\* of every level of the look-ahead.
C3_SearchRestoresBoard ==
    IsSearch => (board = Received /\ last.restored)

\* C3 witness: a search two levels deep that placed and removed tokens on a
\* board holding tokens has returned.
C3_Witness ==
    /\ IsSearch
    /\ last.depth >= 2
    /\ last.placed > board.width
    /\ TokenCount(board) >= 3
    /\ board = Received

\* every column of the list but column col holds the score y
Others(list, col, y) == \A c \in DOMAIN list : c # col => Is(list[c], y)

\* C4 (as stated): on the 7x6 board after 'O', 'X', 'O', ... were placed at
\* columns 0,4,1,2,2,5,4,4,1,1,4, a depth-3 get_next_move for the player to
\* move returns column 3 and records Winning(1).
C4_PlayerToMoveWinsInOne ==
    ( /\ last.op = "get_next_move"
      /\ last.name = "reference"
      /\ last.depth = 3
      /\ last.token = ToMove(board) )
    => (last.ret = 3 /\ Is(player.score, Winning(1)))

\* C4 (amended): on that board a depth-3 get_next_move returns column 3 for
\* either player; the player with the first token 'O' records Winning(1), and
\* 'X', the player to move after the eleven placements, records Winning(0).
C4_ReferenceDecision ==
    ( /\ last.op = "get_next_move"
      /\ last.name = "reference"
      /\ last.depth = 3 )
    => /\ last.ret = 3
       /\ ToMove(board) = "X"
       /\ last.token = "O" => Is(player.score, Winning(1))
       /\ last.token = "X" => Is(player.score, Winning(0))

\* C4 witness: the depth-3 decision of 'O' on the reference board has returned.
C4_Witness ==
    /\ last.op = "get_next_move"
    /\ last.name = "reference"
    /\ last.depth = 3
    /\ last.token = "O"
    /\ last.ret = 3
    /\ TokenCount(board) = 11

\* C5: on the reference board _get_scores_for scores column 3 as Winning(1) and
\* every other column as Losing(0) for 'O' at depth 3; column 3 as Neutral and
\* every other column as Losing(0) for 'O' at depth 2; column 3 as Winning(0)
\* and every other column as Losing(1) for 'X' at depth 4.
C5_ReferenceScores ==
    (last.op = "_get_scores_for" /\ last.name = "reference") =>
        /\ (last.token = "O" /\ last.depth = 3) =>
              (Is(scores[3], Winning(1)) /\ Others(scores, 3, Losing(0)))
        /\ (last.token = "O" /\ last.depth = 2) =>
              (Is(scores[3], Neutral) /\ Others(scores, 3, Losing(0)))
        /\ (last.token = "X" /\ last.depth = 4) =>
              (Is(scores[3], Winning(0)) /\ Others(scores, 3, Losing(1)))

\* C5 witness: the depth-4 scores of 'X' on the reference board were computed.
C5_Witness ==
    /\ last.op = "_get_scores_for"
    /\ last.name = "reference"
    /\ last.token = "X"
    /\ last.depth = 4
    /\ DOMAIN scores = 0 .. 6
    /\ Is(scores[0], Losing(1))

\* C6: the column get_next_move returns has a score equal to the maximum of the
\* score list and no column has a greater score; the columns random.choice
\* draws from are all the columns whose score equals the maximum, so each of
\* them can be the one returned.
C6_ReturnsAnyBestColumn ==
    last.op = "get_next_move" =>
        /\ ScoreEq(scores[last.ret], MaxScore(scores))
        /\ ScoreEq(scores[last.ret], player.score)
        /\ \A c \in DOMAIN scores : ~ScoreLt(scores[last.ret], scores[c])
        /\ last.ret \in last.candidates
        /\ last.candidates = {c \in DOMAIN scores : ScoreEq(scores[c], MaxScore(scores))}

\* C6 witness: get_next_move returned a column that is not the first of several
\* best columns, on a board where another column scores less.
C6_Witness ==
    /\ last.op = "get_next_move"
    /\ \E c \in DOMAIN scores : c < last.ret /\ ScoreEq(scores[c], scores[last.ret])
    /\ \E c \in DOMAIN scores : ScoreLt(scores[c], scores[last.ret])

Opponent == player.opponent_token

\* C8: on a board on which the opponent's token has no four-in-a-row, a search
\* of depth 0 scores every column c with can_add_to(c) true as Neutral and
\* places no token on the board.
C8_DepthZeroNeutral ==
    (IsSearch /\ last.depth = 0 /\ ~connects(Received, Opponent, FALSE)) =>
        /\ \A c \in Cols(Received) :
              can_add_to(Received, c) => Is(scores[c], Neutral)
        /\ last.placed = 0
        /\ board = Received

\* C8 witness: a depth-0 search has returned on a board without a four-in-a-row
\* that has full columns and playable columns.
C8_Witness ==
    /\ IsSearch
    /\ last.depth = 0
    /\ ~Decided(Received)
    /\ \E c1, c2 \in Cols(Received) :
          /\ ~can_add_to(Received, c1)
          /\ can_add_to(Received, c2)
          /\ Is(scores[c2], Neutral)

\* every playable column is scored Losing(-1) and every other column Invalid
AllLost ==
    \A c \in Cols(Received) :
        IF can_add_to(Received, c) THEN Is(scores[c], Losing(-1))
        ELSE Is(scores[c], Invalid)

\* a column is scored Losing(-1) only when the opponent's token has a
\* four-in-a-row on the board as received
LostOnlyIfDecided ==
    \A c \in Cols(Received) :
        Is(scores[c], Losing(-1)) => connects(Received, Opponent, FALSE)

\* C9 (as stated): at every depth, if the opponent's token has a four-in-a-row
\* on the board as received then every playable column is scored Losing(-1) and
\* every unplayable column Invalid; and a column is scored Losing(-1) only then.
C9_DecidedAlways ==
    IsSearch =>
        /\ connects(Received, Opponent, FALSE) => AllLost
        /\ LostOnlyIfDecided

\* C9 (amended): at every depth, if the windowed check reports a four-in-a-row
\* of the opponent's token on the board as received, as it does whenever there
\* is one and no token was added to a board that already held a four-in-a-row,
\* then every playable column is scored Losing(-1) and every unplayable column
\* Invalid; and a column is scored Losing(-1) only when the opponent's token
\* has a four-in-a-row on the board as received.
C9_DecidedPosition ==
    IsSearch =>
        /\ (connects(Received, Opponent, FALSE) /\ hist.clean) =>
              connects(Received, Opponent, TRUE)
        /\ connects(Received, Opponent, TRUE) => AllLost
        /\ LostOnlyIfDecided

\* C9 witness: a search of depth 0 has returned on a board on which the
\* opponent's last token completed a four-in-a-row.
C9_Witness ==
    /\ IsSearch
    /\ last.depth = 0
    /\ hist.clean
    /\ connects(Received, Opponent, FALSE)
    /\ \E c \in Cols(Received) : Is(scores[c], Losing(-1))

\* C10: in the list _get_scores_for returns, column c is scored Invalid if and
\* only if can_add_to(c) is false on the board as received.
C10_InvalidIffUnplayable ==
    IsSearch =>
        \A c \in Cols(Received) :
            (scores[c].score_type = "invalid") <=> ~can_add_to(Received, c)

\* C10 witness: a search that looks ahead has returned on a board with one
\* empty cell; the column of that cell is scored from a child list in which
\* every column is Invalid.
C10_Witness ==
    /\ IsSearch
    /\ last.depth >= 1
    /\ ~Decided(Received)
    /\ TokenCount(Received) = Received.width * Received.height - 1
    /\ \E c \in Cols(Received) :
          can_add_to(Received, c) /\ scores[c].score_type = "neutral"

----------------------------------------------------------------------------
(* Claims about Score *)

Compared == last.op = "compare"

\* exactly one of the three holds
ExactlyOne(p, q, r) == (p /\ ~q /\ ~r) \/ (~p /\ q /\ ~r) \/ (~p /\ ~q /\ r)

\* C11: over all Score values, == is reflexive, < is antisymmetric and
\* transitive, exactly one of x < y, x == y, x > y holds for every pair, x <= y
\* iff not y < x, x >= y iff not x < y, and x != y iff not x == y.
C11_ScoreTotalOrder ==
    Compared =>
        LET x == scores[0]
            y == scores[1]
            z == scores[2]
        IN  /\ ScoreEq(x, x)
            /\ ~(ScoreLt(x, y) /\ ScoreLt(y, x))
            /\ (ScoreLt(x, y) /\ ScoreLt(y, z)) => ScoreLt(x, z)
            /\ ExactlyOne(ScoreLt(x, y), ScoreEq(x, y), ScoreGt(x, y))
            /\ ScoreLe(x, y) <=> ~ScoreLt(y, x)
            /\ ScoreGe(x, y) <=> ~ScoreLt(x, y)
            /\ ScoreNe(x, y) <=> ~ScoreEq(x, y)

\* C11 witness: Losing(-1), Losing(0) and Winning(1) are compared, a chain of
\* three scores in rising order.
C11_Witness ==
    /\ Compared
    /\ scores[0] = Losing(-1)
    /\ scores[1] = Losing(0)
    /\ scores[2] = Winning(1)
    /\ ScoreLt(scores[0], scores[1])
    /\ ScoreLt(scores[1], scores[2])
    /\ ScoreLt(scores[0], scores[2])

\* C12: Invalid is less than every Losing, Neutral and Winning score; every
\* Losing(n) is less than Neutral; Neutral is less than every Winning(n);
\* Losing(a) < Losing(b) iff a < b; Winning(a) > Winning(b) iff a < b.
C12_ScoreOrder ==
    Compared =>
        LET x == scores[0]
            y == scores[1]
        IN  /\ (x.score_type = "invalid" /\ y.score_type # "invalid") => ScoreLt(x, y)
            /\ (x.score_type = "losing" /\ y.score_type = "neutral") => ScoreLt(x, y)
            /\ (x.score_type = "neutral" /\ y.score_type = "winning") => ScoreLt(x, y)
            /\ (x.score_type = "losing" /\ y.score_type = "losing") =>
                  (ScoreLt(x, y) <=> Val(x) < Val(y))
            /\ (x.score_type = "winning" /\ y.score_type = "winning") =>
                  (ScoreGt(x, y) <=> Val(x) < Val(y))

\* C12 witness: Winning(0) and Winning(2) are compared and the first is greater.
C12_Witness ==
    /\ Compared
    /\ scores[0] = Winning(0)
    /\ scores[1] = Winning(2)
    /\ ScoreGt(scores[0], scores[1])
    /\ ~ScoreLt(scores[0], scores[1])

\* C13: reverse(Losing(n)) is Winning(n+1), reverse(Winning(n)) is Losing(n),
\* reverse(Neutral) and reverse(Invalid) are Neutral, and the receiver is what
\* it was before the call.
C13_ReverseSemantics ==
    last.op = "_reverse" =>
        LET x == scores[0]
            r == scores[1]
        IN  /\ x.score_type = "losing" => Is(r, Winning(Val(x) + 1))
            /\ x.score_type = "winning" => Is(r, Losing(Val(x)))
            /\ x.score_type \in {"neutral", "invalid"} => Is(r, Neutral)
            /\ x = hist.before

\* C13 witness: Losing(-1) was reversed, and the result outranks Winning(1).
C13_Witness ==
    /\ last.op = "_reverse"
    /\ scores[0] = Losing(-1)
    /\ scores[1].score_type = "winning"
    /\ ScoreGt(scores[1], Winning(1))

\* C14 (as stated): building an Invalid or Neutral Score with an integer
\* payload is rejected with an error, and no Score object of type invalid or
\* neutral carries a payload.
C14_NoPayloadOnInvalidNeutral ==
    last.op \in ScoreOps =>
        \A i \in DOMAIN scores :
            scores[i].score_type \in {"invalid", "neutral"} => scores[i].score_val = None

----------------------------------------------------------------------------
(* Claims about the calls of the board *)

\* the rows of column col that hold a token, and their number
TokenRows(b, col) == {row \in Rows(b) : b.config[row][col] # Empty}
ColumnTokens(b, col) == Cardinality(TokenRows(b, col))

InRange(b, col) == 0 <= col /\ col < b.width

\* C15: can_add_to(col) returns true if and only if 0 <= col < width and
\* column col holds fewer than height tokens, and it leaves the board as it was.
C15_CanAddTo ==
    last.op = "can_add_to" =>
        /\ last.answer <=>
              (InRange(board, last.col) /\ ColumnTokens(board, last.col) < board.height)
        /\ board = hist.before

\* C15 witness: can_add_to returned false for a full column of a board that
\* has other columns with room.
C15_Witness ==
    /\ last.op = "can_add_to"
    /\ ~last.answer
    /\ InRange(board, last.col)
    /\ ColumnTokens(board, last.col) = board.height
    /\ ~is_full(board)

\* the arguments with which add_token has to fail on board b
BadAdd(b, token, col) ==
    \/ token \notin Tokens
    \/ ~InRange(b, col)
    \/ ColumnTokens(b, col) = b.height

\* C16: add_token(token, col) fails with an error when token is not 'O' or
\* 'X', when col is outside [0, width) or when column col is full, and then
\* the cells, fill pointers and window bounds are what they were.
C16_AddTokenErrors ==
    (last.op = "add_token" /\ BadAdd(hist.before, last.token, last.col)) =>
        (last.error # "" /\ board = hist.before)

\* C16 witness: add_token failed with a valid token on a full column.
C16_Witness ==
    /\ last.op = "add_token"
    /\ last.error # ""
    /\ last.token \in Tokens
    /\ InRange(board, last.col)
    /\ ColumnTokens(board, last.col) = board.height

\* the lowest empty cell of column col (the one with the greatest row index)
LowestEmpty(b, col) ==
    CHOOSE row \in Rows(b) \ TokenRows(b, col) :
        \A other \in Rows(b) \ TokenRows(b, col) : other <= row

\* C17: a successful add_token(token, col) writes token into the lowest empty
\* cell of column col, directly above the column's tokens or on the bottom
\* row, advances only that column's fill pointer by one and leaves every other
\* cell and fill pointer as it was.
C17_AddTokenFrame ==
    (last.op = "add_token" /\ last.error = "") =>
        LET b   == hist.before
            col == last.col
            row == LowestEmpty(b, col)
        IN  /\ board.config = [b.config EXCEPT ![row][col] = last.token]
            /\ TokenRows(b, col) = (row + 1) .. (b.height - 1)
            /\ board.available_rows = [b.available_rows EXCEPT ![col] = @ - 1]
            /\ ColumnTokens(board, col) = ColumnTokens(b, col) + 1

\* C17 witness: a token was added on top of two tokens of a column.
C17_Witness ==
    /\ last.op = "add_token"
    /\ last.error = ""
    /\ ColumnTokens(board, last.col) = 3
    /\ board.config[board.height - 3][last.col] = last.token

\* board.remove_token(col), going through or failing
RemoveTokenCall(col) == RemoveToken(col) \/ RemoveTokenFails(col)

\* C18: remove_token(col) fails with an error when col is outside [0, width)
\* and when column col holds no token, and then the cells, fill pointers and
\* window bounds are what they were.
C18_RemoveTokenErrors ==
    [][ \A col \in ColArgs(board) :
          ( /\ RemoveTokenCall(col)
            /\ (~InRange(board, col) \/ ColumnTokens(board, col) = 0) )
          => (last'.error # "" /\ board' = board) ]_vars

\* C18 witness: remove_token failed on an empty column of a board that holds
\* tokens in other columns.
C18_Witness ==
    /\ last.op = "remove_token"
    /\ last.error # ""
    /\ InRange(board, last.col)
    /\ ColumnTokens(board, last.col) = 0
    /\ TokenCount(board) >= 2
    /\ board = hist.before

\* the topmost token of column col (the one with the least row index)
Topmost(b, col) ==
    CHOOSE row \in TokenRows(b, col) : \A other \in TokenRows(b, col) : row <= other

\* the tokens of every column lie on the bottom row and up, without a gap
Stacked(b) ==
    \A col \in Cols(b) :
        TokenRows(b, col) = (b.height - ColumnTokens(b, col)) .. (b.height - 1)

\* C19: a successful remove_token(col) clears exactly the topmost token of
\* column col and retracts only that column's fill pointer by one; every
\* other cell and fill pointer is unchanged, and the tokens left in each
\* column are its bottom ones, in the cells they were placed in.
C19_RemoveTokenFrame ==
    /\ []Stacked(board)
    /\ [][ \A col \in Cols(board) :
            RemoveToken(col) =>
               /\ board'.config =
                     [board.config EXCEPT ![Topmost(board, col)][col] = Empty]
               /\ board'.available_rows = [board.available_rows EXCEPT ![col] = @ + 1]
               /\ ColumnTokens(board', col) = ColumnTokens(board, col) - 1 ]_vars

\* C19 witness: a remove_token call that did not follow the add_token call of
\* its token went through on a board that still holds tokens.
C19_Witness ==
    /\ last.op = "remove_token"
    /\ last.error = ""
    /\ ~hist.undone
    /\ TokenCount(board) >= 2

\* C20: is_full() returns true if and only if every column holds exactly
\* height tokens, that is no cell is empty; on a full board can_add_to(c) is
\* false for every column c and every add_token call fails.
C20_IsFull ==
    /\ last.op = "is_full" =>
          /\ last.answer <=> \A col \in Cols(board) : ColumnTokens(board, col) = board.height
          /\ last.answer <=>
                \A row \in Rows(board) : \A col \in Cols(board) :
                    board.config[row][col] # Empty
    /\ (last.op = "can_add_to" /\ is_full(board)) => ~last.answer
    /\ (last.op = "add_token" /\ is_full(hist.before)) =>
          (last.error # "" /\ board = hist.before)

\* C20 witness: is_full returned true on a board without an empty cell.
C20_Witness ==
    /\ last.op = "is_full"
    /\ last.answer
    /\ \A col \in Cols(board) : ColumnTokens(board, col) = board.height

----------------------------------------------------------------------------
(* Claims about win detection and the board's invariants *)

\* the four directions a line runs in: along a row, down a column, and down
\* the two diagonals, as <<row step, column step>>
Directions == { <<0, 1>>, <<1, 0>>, <<1, 1>>, <<1, -1>> }

\* four cells of the board at unit stride from <<row, col>> in direction d,
\* all holding token
FourFrom(b, token, row, col, d) ==
    \A k \in 0 .. 3 :
        /\ row + k * d[1] \in Rows(b)
        /\ col + k * d[2] \in Cols(b)
        /\ b.config[row + k * d[1]][col + k * d[2]] = token

FourInLine(b, token) ==
    \E row \in Rows(b) : \E col \in Cols(b) : \E d \in Directions :
        FourFrom(b, token, row, col, d)

\* C21: connects(token, lazy=False) is true if and only if four cells that are
\* consecutive at unit stride in one row, one column or one of the two
\* diagonal directions, all inside the board, hold token; the call leaves the
\* board as it was.
C21_FullScan ==
    (last.op = "connects" /\ last.error = "") =>
        /\ last.answer <=> FourInLine(board, last.token)
        /\ board = hist.before

\* C21 witness: the full scan reported a four-in-a-row that lies on a
\* diagonal and on no row or column.
C21_Witness ==
    /\ last.op = "connects"
    /\ last.answer
    /\ ~connects_horiz(board, last.token, FALSE)
    /\ ~connects_vert(board, last.token, FALSE)
    /\ \E row \in Rows(board) : \E col \in Cols(board) :
          FourFrom(board, last.token, row, col, <<1, -1>>)

\* C22: after any sequence of add_token and remove_token calls, failed ones
\* included, every cell is empty, 'O' or 'X'; the tokens of each column form a
\* run from the bottom row up with only empty cells above it; and each
\* column's fill pointer is the row of the first empty cell above that run,
\* the column holding between 0 and height tokens.
C22_BoardStructure ==
    /\ \A row \in Rows(board) : \A col \in Cols(board) :
          board.config[row][col] \in Tokens \cup {Empty}
    /\ Stacked(board)
    /\ \A col \in Cols(board) :
          /\ board.available_rows[col] = board.height - 1 - ColumnTokens(board, col)
          /\ ColumnTokens(board, col) \in 0 .. board.height
          /\ \A row \in Rows(board) :
                (board.config[row][col] = Empty) <=> (row <= board.available_rows[col])

\* C22 witness: an add_token call has just failed on a full column of a board
\* that also has a partly filled column.
C22_Witness ==
    /\ last.op = "add_token"
    /\ last.error # ""
    /\ InRange(board, last.col)
    /\ ColumnTokens(board, last.col) = board.height
    /\ \E col \in Cols(board) : ColumnTokens(board, col) \in 1 .. (board.height - 1)

\* C23: in the initial state and after any sequence of successful add_token
\* and remove_token calls, _available_min is the minimum of the columns' fill
\* pointers and _filled_max the maximum of the columns' fill pointers plus one.
C23_WindowBookkeeping ==
    /\ \A col \in Cols(board) :
          /\ board.available_min <= board.available_rows[col]
          /\ board.filled_max >= board.available_rows[col] + 1
    /\ \E col \in Cols(board) : board.available_min = board.available_rows[col]
    /\ \E col \in Cols(board) : board.filled_max = board.available_rows[col] + 1

\* C23 witness: a remove_token call that was not an undo has returned on a
\* board with an empty column and a column whose pointer is the top row.
C23_Witness ==
    /\ last.op = "remove_token"
    /\ ~hist.undone
    /\ board.filled_max = board.height
    /\ board.available_min = 0
    /\ TokenCount(board) >= 5

(***************************************************************************)
(* Claims about the players and the game loop                              *)
(***************************************************************************)

\* the player of a game whose turn it is, and the same player after the step
Mover == game.players[game.turn]

MoverAfter == game'.players[game.turn]

\* C24: a get_next_move call adds exactly one to the num_moves of the player
\* it is called on, whatever its depth, and changes neither that player's
\* token, opponent token or depth, nor anything of the other player
C24_NumMoves ==
    [][ game.state = "running" =>
          /\ MoverAfter.obj.num_moves = Mover.obj.num_moves + 1
          /\ MoverAfter.kind = Mover.kind
          /\ MoverAfter.obj.token = game.turn
          /\ Mover.kind = "auto" =>
                /\ MoverAfter.obj.depth = Mover.obj.depth
                /\ MoverAfter.obj.opponent_token = OpponentOf(game.turn)
          /\ game'.players[OpponentOf(game.turn)] = game.players[OpponentOf(game.turn)]
      ]_vars

\* an AutoPlayer that looks ahead has made its third move
C24_Witness ==
    /\ last.op = "_process_move"
    /\ game.players[last.token].kind = "auto"
    /\ game.players[last.token].obj.depth >= 1
    /\ game.players[last.token].obj.num_moves = 3

\* the columns of b that take a token
PlayableCols(b) == {c \in Cols(b) : can_add_to(b, c)}

\* C25: an AutoPlayer's recorded score is Neutral before its first decision;
\* after get_next_move on a board with a playable column it is the greatest
\* score of the playable columns, and the score of the column returned
C25_RecordedScore ==
    /\ \A token \in Tokens : \A depth \in 0 .. MaxScenarioDepth :
          Is(NewAutoPlayer(token, depth).score, Neutral)
    /\ last.op # "get_next_move" => Is(player.score, Neutral)
    /\ (last.op = "get_next_move" /\ PlayableCols(Received) # {}) =>
          /\ \A c \in PlayableCols(Received) : ScoreLe(scores[c], player.score)
          /\ \E c \in PlayableCols(Received) : Is(scores[c], player.score)
          /\ Is(scores[last.ret], player.score)

\* get_next_move recorded a winning or losing score on a board with a full
\* column and playable columns of different scores
C25_Witness ==
    /\ last.op = "get_next_move"
    /\ PlayableCols(Received) \notin {{}, Cols(Received)}
    /\ player.score.score_type \in {"winning", "losing"}
    /\ \E c \in PlayableCols(Received) : ScoreLt(scores[c], player.score)

\* the number of cells of b that hold token
CountOf(b, token) ==
    Cardinality({rc \in Rows(b) \X Cols(b) : b.config[rc[1]][rc[2]] = token})

GameOver == game.state \in {"won", "tie"}

\* what holds in every state of a game: no call has failed; 'O' and 'X' have
\* taken turns from 'O' on; the game went on after a placement exactly when
\* the mover had no four-in-a-row and the board was not full, ended as won
\* when the mover had one, and as a tie otherwise
GameLoopState ==
    game.state # "none" =>
        /\ game.state # "error"
        /\ hist.clean
        /\ CountOf(board, "O") - CountOf(board, "X") \in {0, 1}
        /\ TokenCount(board) <= board.width * board.height
        /\ game.state = "running" =>
              /\ game.turn = ToMove(board)
              /\ ~Decided(board)
              /\ ~is_full(board)
        /\ game.state = "won" =>
              /\ game.turn = OpponentOf(ToMove(board))
              /\ connects(board, game.turn, FALSE)
              /\ ~connects(board, OpponentOf(game.turn), FALSE)
        /\ game.state = "tie" =>
              /\ is_full(board)
              /\ ~Decided(board)

\* what holds of every step of a game: a running game places one token, of the
\* player whose turn it is; a game that is over places none
GameLoopStep ==
    /\ game.state = "running" =>
          /\ CountOf(board', game.turn) = CountOf(board, game.turn) + 1
          /\ TokenCount(board') = TokenCount(board) + 1
    /\ GameOver => UNCHANGED vars

\* C26: the game loop lets 'O' and 'X' move in turn, 'O' first; after each
\* placement it tests the mover's four-in-a-row, then fullness, and stops at
\* the first that holds; no token is placed after a win or on a full board;
\* the game ends, after at most width * height placements
C26_GameLoop ==
    /\ []GameLoopState
    /\ [][GameLoopStep]_vars
    /\ (game.state = "running") ~> GameOver

\* a game was won by the token that filled the last cell
C26_Witness ==
    /\ game.state = "won"
    /\ is_full(board)
    /\ last.op = "_process_move"

\* C27: in every state of a game, and in every position the look-ahead of an
\* AutoPlayer visits from one (after each add_token and after each remove_token
\* that undoes it), connects(token, lazy=True) and connects(token) give the
\* same answer, for both tokens
C27_LazyAgreesInGames ==
    game.state # "none" => (LazyAgrees(board) /\ game.agreed)

\* an AutoPlayer that looks ahead won a game: its look-ahead visited the board
\* with its four-in-a-row
C27_Witness ==
    /\ game.state = "won"
    /\ game.players[game.turn].kind = "auto"
    /\ game.players[game.turn].obj.depth >= 1
    /\ game.players[game.turn].obj.score = Winning(0)
    /\ connects(board, game.turn, TRUE)

\* C28 (as stated): for a search of depth >= 1 on a board on which neither
\* token has a four-in-a-row, a playable column is scored Winning(0) exactly
\* when the mover's token placed in it completes a four-in-a-row, also when
\* that token fills the last empty cell of the board
C28_ImmediateWins ==
    (IsSearch /\ last.depth >= 1 /\ ~Decided(Received)) =>
        \A c \in PlayableCols(Received) :
            Is(scores[c], Winning(0)) <=>
                connects(add_token(Received, last.token, c), last.token, FALSE)

\* C29: on a board with a playable column get_next_move raises nothing and
\* returns a playable column, so that the add_token call that follows it in
\* _process_move goes through
C29_ReturnsPlayable ==
    (last.op = "get_next_move" /\ PlayableCols(Received) # {}) =>
        /\ last.error = ""
        /\ last.ret \in PlayableCols(Received)
        /\ add_token_error(board, last.token, last.ret) = ""

\* get_next_move returned a playable column whose score is a loss, on a board
\* with a full column
C29_Witness ==
    /\ last.op = "get_next_move"
    /\ PlayableCols(Received) \notin {{}, Cols(Received)}
    /\ last.ret \in PlayableCols(Received)
    /\ scores[last.ret].score_type = "losing"

\* what a search of the given depth can say of a column
PayloadBound(x, depth) ==
    /\ x.score_type = "winning" => (Val(x) >= 0 /\ 2 * Val(x) + 1 <= depth)
    /\ x.score_type = "losing" =>
          (Val(x) = -1 \/ (Val(x) >= 0 /\ 2 * Val(x) + 2 <= depth))
    /\ depth = 0 => (x.score_type \in {"invalid", "neutral"} \/ Is(x, Losing(-1)))
    /\ depth = 1 => ~(x.score_type = "losing" /\ Val(x) >= 0)

\* C30: a search of depth d scores a column Winning(n) only with n >= 0 and
\* 2n + 1 <= d, and Losing(n) only with n = -1 or with n >= 0 and 2n + 2 <= d;
\* depth 0 gives Invalid, Neutral and Losing(-1) only, depth 1 no Losing(n)
\* with n >= 0; the score get_next_move records obeys the same bounds
C30_PayloadBounds ==
    /\ IsSearch => \A c \in DOMAIN scores : PayloadBound(scores[c], last.depth)
    /\ last.op = "get_next_move" => PayloadBound(player.score, last.depth)

\* a search of depth 4 found a win in one move and losses in four, a search
\* of depth 3 a win in three
C30_Witness ==
    /\ IsSearch
    /\ \/ /\ last.depth = 4
          /\ \E c1, c2 \in DOMAIN scores :
                Is(scores[c1], Winning(0)) /\ Is(scores[c2], Losing(1))
       \/ /\ last.depth = 3
          /\ \E c \in DOMAIN scores : Is(scores[c], Winning(1))

(***************************************************************************)
(* Claims about the order of scores, the depth of the search and the end   *)
(* of a game                                                               *)
(***************************************************************************)

\* C32: _reverse turns the order of the scores that are not Invalid around:
\* x < y implies reverse(y) < reverse(x); hence the reverse of the greater of
\* two such scores is the lesser of their reverses; the reverse of Invalid is
\* Neutral, as that of Neutral is
C32_ReverseReversesOrder ==
    last.op = "max_reverse" =>
        LET x  == scores[0]
            y  == scores[1]
            rx == scores[2]
            ry == scores[3]
            rm == scores[4]
        IN  /\ (x.score_type # "invalid" /\ y.score_type # "invalid") =>
                  /\ ScoreLt(x, y) => ScoreLt(ry, rx)
                  /\ ScoreLe(rm, rx)
                  /\ ScoreLe(rm, ry)
                  /\ Is(rm, rx) \/ Is(rm, ry)
            /\ x.score_type = "invalid" =>
                  /\ Is(rx, Neutral)
                  /\ y.score_type = "neutral" => (ScoreLt(x, y) /\ ~ScoreLt(ry, rx))

\* Losing(0) and Losing(1) were reversed: Winning(2) is less than Winning(1),
\* and is the reverse of the greater of the two
C32_Witness ==
    /\ last.op = "max_reverse"
    /\ scores[0] = Losing(0)
    /\ scores[1] = Losing(1)
    /\ ScoreLt(scores[3], scores[2])
    /\ Is(scores[4], Winning(2))

\* C33: two invalid scores are equal whatever their payloads - neither is less
\* or greater than the other, each is <= and >= the other - and so are two
\* neutral scores; Losing(a) == Losing(b) iff a = b and Winning(a) ==
\* Winning(b) iff a = b
C33_EqualityIgnoresPayload ==
    Compared =>
        LET x == scores[0]
            y == scores[1]
        IN  /\ (x.score_type = y.score_type /\ x.score_type \in {"invalid", "neutral"}) =>
                  /\ ScoreEq(x, y)
                  /\ ~ScoreNe(x, y)
                  /\ ~ScoreLt(x, y)
                  /\ ~ScoreGt(x, y)
                  /\ ScoreLe(x, y)
                  /\ ScoreGe(x, y)
            /\ (x.score_type = y.score_type /\ x.score_type \in {"losing", "winning"}) =>
                  (ScoreEq(x, y) <=> Val(x) = Val(y))

\* a neutral score without payload was compared with one built with payload
\* 0, and an invalid score with payload 1 with one with payload 2
C33_Witness ==
    /\ Compared
    /\ \/ /\ scores[0] = Score("neutral", None)
          /\ scores[1] = Score("neutral", Some(0))
       \/ /\ scores[0] = Score("invalid", Some(1))
          /\ scores[1] = Score("invalid", Some(2))
    /\ ScoreEq(scores[0], scores[1])

\* C34: when the token that fills the last empty cell completes a
\* four-in-a-row of the mover, the game ends as won by the mover; it ends as
\* a tie exactly when the board is full and the last mover has no
\* four-in-a-row
C34_WinBeforeTie ==
    last.op = "_process_move" =>
        /\ (is_full(board) /\ connects(board, last.token, FALSE)) =>
              (game.state = "won" /\ game.turn = last.token)
        /\ game.state = "tie" <=>
              (is_full(board) /\ ~connects(board, last.token, FALSE))

\* 'X' placed the sixteenth token and completed a four-in-a-row with it
C34_Witness ==
    /\ last.op = "_process_move"
    /\ last.token = "X"
    /\ TokenCount(board) = board.width * board.height
    /\ connects(board, "X", FALSE)
    /\ game.state # "tie"

\* C35: in every state of a game started on an empty board with new players,
\* each player's num_moves is the number of its tokens on the board, there
\* are as many 'O' as 'X' or one more, and the number of moves printed for
\* the winner is the number of the winner's tokens
C35_MoveCounts ==
    game.state # "none" =>
        /\ \A token \in Tokens :
              game.players[token].obj.num_moves = CountOf(board, token)
        /\ CountOf(board, "O") - CountOf(board, "X") \in {0, 1}
        /\ game.state = "won" <=> game.won_in # -1
        /\ game.state = "won" => game.won_in = CountOf(board, game.turn)

\* a RandomPlayer won with its eighth token
C35_Witness ==
    /\ game.state = "won"
    /\ game.players[game.turn].kind = "random"
    /\ game.won_in = 8
    /\ game.players[OpponentOf(game.turn)].obj.num_moves \in {7, 8}

\* the last call was a search deeper than the one before it, on the same board
\* and for the same token
SearchedAgain == last.op = "_get_scores_for" /\ hist.shallow # NoShallow

\* C31: a column that a search scores Winning(n) or Losing(n) has exactly
\* that score in every deeper search of the same board; only a Neutral score
\* changes with the depth (and an Invalid one stays Invalid)
C31_DecidedStable ==
    SearchedAgain =>
        /\ board = Received
        /\ hist.shallow.depth < last.depth
        /\ \A c \in DOMAIN scores :
              LET old == hist.shallow.scores[c] IN
              /\ old.score_type \in {"winning", "losing"} =>
                    (scores[c].score_type = old.score_type /\ Val(scores[c]) = Val(old))
              /\ old.score_type = "invalid" <=> scores[c].score_type = "invalid"

\* a search of depth 4 followed a search of depth 2: a column scored
\* Losing(0) kept its score and a column scored Neutral became Losing(1)
C31_Witness ==
    /\ SearchedAgain
    /\ hist.shallow.depth = 2
    /\ last.depth = 4
    /\ \E c1, c2 \in DOMAIN scores :
          /\ Is(hist.shallow.scores[c1], Losing(0))
          /\ Is(scores[c1], Losing(0))
          /\ Is(hist.shallow.scores[c2], Neutral)
          /\ Is(scores[c2], Losing(1))

====
